---------------------------- MODULE Spec2Model ----------------------------
(***************************************************************************)
(* Model of the tensor point-cloud PLY codec                               *)
(* (cpp/open3d/t/io/file_format/FilePLY.cpp): WritePointCloudToPLY,        *)
(* ReadPointCloudFromPLY and ReadAttributeCallback, together with the part *)
(* of the rply format library that the codec drives (ply_create,           *)
(* ply_add_property, ply_write, ply_open, ply_set_read_cb, ply_read).      *)
(*                                                                         *)
(* A run of Spec either writes a point cloud and reads the written file   *)
(* back (mode "roundtrip"), or reads a hand-made file (mode "crafted").    *)
(* SpecCallback drives ReadAttributeCallback alone (mode "callback").      *)
(***************************************************************************)
EXTENDS Integers, Sequences, FiniteSets, TLC

(***************************************************************************)
(* Bounds of the model.                                                    *)
(***************************************************************************)
MaxPoints == 2
MaxProps == 3
MaxCount == 2

(***************************************************************************)
(* Program constants.                                                      *)
(***************************************************************************)
ProgressInterval == 1000
TripleWidth == 3

(***************************************************************************)
(* Small helpers.                                                          *)
(***************************************************************************)
Range(s) == {s[i] : i \in 1..Len(s)}

RECURSIVE Pow2(_)
Pow2(n) == IF n = 0 THEN 1 ELSE 2 * Pow2(n - 1)

EmptyMap == [n \in {} |-> 0]

(***************************************************************************)
(* Type Negotiator.                                                        *)
(***************************************************************************)
SupportedDtypes == {"UInt8", "UInt16", "Int32", "Float32", "Float64"}

GetDtype(type) ==
    IF type = "PLY_UINT8" THEN "UInt8"
    ELSE IF type = "PLY_UINT16" THEN "UInt16"
    ELSE IF type = "PLY_INT32" THEN "Int32"
    ELSE IF type = "PLY_FLOAT32" THEN "Float32"
    ELSE IF type = "PLY_FLOAT64" THEN "Float64"
    ELSE IF type = "PLY_UCHAR" THEN "UInt8"
    ELSE IF type = "PLY_INT" THEN "Int32"
    ELSE IF type = "PLY_FLOAT" THEN "Float32"
    ELSE IF type = "PLY_DOUBLE" THEN "Float64"
    ELSE "Undefined"

GetPlyType(dtype) ==
    IF dtype = "UInt8" THEN "PLY_UINT8"
    ELSE IF dtype = "UInt16" THEN "PLY_UINT16"
    ELSE IF dtype = "Int32" THEN "PLY_INT32"
    ELSE IF dtype = "Float32" THEN "PLY_FLOAT32"
    ELSE IF dtype = "Float64" THEN "PLY_FLOAT64"
    ELSE IF dtype = "UInt8" THEN "PLY_UCHAR"
    ELSE IF dtype = "Int32" THEN "PLY_INT32"
    ELSE IF dtype = "Float32" THEN "PLY_FLOAT"
    ELSE "PLY_DOUBLE"

(* sizeof(scalar_t) of the template instance DISPATCH_DTYPE_TO_TEMPLATE    *)
(* selects for a dtype.                                                    *)
SizeOf(dtype) ==
    CASE dtype = "UInt8" -> 1
      [] dtype = "UInt16" -> 2
      [] dtype = "Int32" -> 4
      [] dtype = "Float32" -> 4
      [] dtype = "Float64" -> 8
      [] OTHER -> 0

(***************************************************************************)
(* Scalars.  Values are integers; a Float32 holds the integers a 24-bit    *)
(* significand represents exactly, up to 2^25.                             *)
(***************************************************************************)
Float32Exact == Pow2(24)

RoundFloat32(v) ==
    LET a == IF v < 0 THEN -v ELSE v
        r == IF a <= Float32Exact THEN a
             ELSE LET q == a \div 2
                  IN  IF a % 2 = 0 THEN a
                      ELSE IF q % 2 = 0 THEN 2 * q ELSE 2 * (q + 1)
    IN  IF v < 0 THEN -r ELSE r

(* static_cast<T>(double) of line 77, and the library's narrowing of the   *)
(* double handed to ply_write to the property's wire type.                 *)
CastTo(dtype, v) ==
    CASE dtype = "UInt8" -> v % 256
      [] dtype = "UInt16" -> v % 65536
      [] dtype = "Float32" -> RoundFloat32(v)
      [] OTHER -> v

(* The storage kind of a wire type: the aliases share one representation.  *)
WireKind(type) ==
    CASE type \in {"PLY_UINT8", "PLY_UCHAR"} -> "UInt8"
      [] type \in {"PLY_INT8", "PLY_CHAR"} -> "Int8"
      [] type \in {"PLY_UINT16", "PLY_USHORT"} -> "UInt16"
      [] type \in {"PLY_INT16", "PLY_SHORT"} -> "Int16"
      [] type \in {"PLY_INT32", "PLY_INT"} -> "Int32"
      [] type \in {"PLY_UIN32", "PLY_UINT"} -> "UInt32"
      [] type \in {"PLY_FLOAT32", "PLY_FLOAT"} -> "Float32"
      [] type \in {"PLY_FLOAT64", "PLY_DOUBLE"} -> "Float64"
      [] OTHER -> "List"

WireBytes(type) ==
    CASE WireKind(type) \in {"UInt8", "Int8"} -> 1
      [] WireKind(type) \in {"UInt16", "Int16"} -> 2
      [] WireKind(type) \in {"Int32", "UInt32", "Float32"} -> 4
      [] OTHER -> 8

WireSigned(type) == WireKind(type) \notin {"UInt8", "UInt16", "UInt32"}

(* Whether the library's output handler accepts the value for the type.    *)
WireInRange(type, v) ==
    CASE WireKind(type) = "UInt8" -> v >= 0 /\ v <= 255
      [] WireKind(type) = "Int8" -> v >= -128 /\ v <= 127
      [] WireKind(type) = "UInt16" -> v >= 0 /\ v <= 65535
      [] WireKind(type) = "Int16" -> v >= -32768 /\ v <= 32767
      [] WireKind(type) = "UInt32" -> v >= 0
      [] OTHER -> TRUE

WireNarrow(type, v) ==
    IF WireKind(type) = "Float32" THEN RoundFloat32(v) ELSE v

(* Little-endian bytes of the magnitude, followed for a signed type by one *)
(* sign marker (the values of the model stay below 2^31).                  *)
RECURSIVE LEBytes(_, _)
LEBytes(n, a) == IF n = 0 THEN <<>> ELSE <<a % 256>> \o LEBytes(n - 1, a \div 256)

RECURSIVE FromLEBytes(_)
FromLEBytes(bs) == IF bs = <<>> THEN 0 ELSE Head(bs) + 256 * FromLEBytes(Tail(bs))

EncodeBinary(type, v) ==
    LET n == WireBytes(type)
        a == IF v < 0 THEN -v ELSE v
    IN  IF WireSigned(type)
        THEN LEBytes(n, a) \o <<IF v < 0 THEN 1 ELSE 0>>
        ELSE LEBytes(n, a)

DecodeBinary(type, bs) ==
    LET n == WireBytes(type)
        a == FromLEBytes(SubSeq(bs, 1, n))
    IN  IF WireSigned(type) /\ Len(bs) > n /\ bs[n + 1] = 1 THEN -a ELSE a

(* ASCII: a minus sign (code 45) and decimal digits (codes 48..57).        *)
RECURSIVE Digits(_)
Digits(a) == IF a < 10 THEN <<48 + a>> ELSE Digits(a \div 10) \o <<48 + (a % 10)>>

RECURSIVE FromDigits(_, _)
FromDigits(ds, acc) ==
    IF ds = <<>> THEN acc ELSE FromDigits(Tail(ds), 10 * acc + (Head(ds) - 48))

EncodeAscii(v) == IF v < 0 THEN <<45>> \o Digits(-v) ELSE Digits(v)

DecodeAscii(tok) ==
    IF tok # <<>> /\ Head(tok) = 45 THEN -FromDigits(Tail(tok), 0)
    ELSE FromDigits(tok, 0)

(* ply_write(ply, double): one token of the body in the file's encoding.   *)
EncodeValue(format, type, v) ==
    IF format = "PLY_ASCII" THEN EncodeAscii(WireNarrow(type, v))
    ELSE EncodeBinary(type, WireNarrow(type, v))

(* The value the library hands to a read callback for one token.           *)
DecodeValue(format, type, tok) ==
    IF format = "PLY_ASCII" THEN DecodeAscii(tok) ELSE DecodeBinary(type, tok)

(***************************************************************************)
(* Inputs of a write: the attribute table of a point cloud.  A tensor is   *)
(* [dtype, rows, cols, data], data row-major, flat index i at data[i + 1]. *)
(***************************************************************************)
ReservedNames == {"x", "y", "z", "nx", "ny", "nz", "red", "green", "blue"}
GenericNames == {"intensity", "label", "red"}
AllNames == <<"colors", "intensity", "label", "normals", "positions", "red">>

ValueOf(d, j) ==
    CASE d = "UInt8" -> 255 - j
      [] d = "UInt16" -> 65535 - j
      [] d = "Int32" -> IF j % 2 = 0 THEN 2000000000 + j ELSE -(1000000 + j)
      [] d = "Float32" -> Float32Exact - j
      [] OTHER -> Float32Exact + 1 + 2 * j

Tensor(d, rows, cols, seed) ==
    [dtype |-> d, rows |-> rows, cols |-> cols,
     data |-> [i \in 1..(rows * cols) |-> ValueOf(d, seed + i)]]

Rot(d) ==
    CASE d = "UInt8" -> "UInt16"
      [] d = "UInt16" -> "Int32"
      [] d = "Int32" -> "Float32"
      [] d = "Float32" -> "Float64"
      [] OTHER -> "UInt8"

Seed(name) ==
    CASE name = "positions" -> 0
      [] name = "normals" -> 10
      [] name = "colors" -> 20
      [] name = "intensity" -> 30
      [] name = "label" -> 40
      [] OTHER -> 50

Defects == {"none", "no_positions", "normals_rows", "colors_rows",
            "generic_rows", "generic_cols"}

MkCloud(N, d, hasN, hasC, gens, defect) ==
    LET names == (IF defect = "no_positions" THEN {} ELSE {"positions"})
                 \cup (IF hasN THEN {"normals"} ELSE {})
                 \cup (IF hasC THEN {"colors"} ELSE {})
                 \cup gens
    IN  [n \in names |->
            CASE n = "positions" -> Tensor(d, N, TripleWidth, Seed(n))
              [] n = "normals" ->
                    Tensor(d, IF defect = "normals_rows" THEN N + 1 ELSE N,
                           TripleWidth, Seed(n))
              [] n = "colors" ->
                    Tensor(Rot(Rot(d)),
                           IF defect = "colors_rows" THEN N + 1 ELSE N,
                           TripleWidth, Seed(n))
              [] OTHER ->
                    Tensor(Rot(d),
                           IF defect = "generic_rows" THEN N + 1 ELSE N,
                           IF defect = "generic_cols" THEN 2 ELSE 1, Seed(n))]

Clouds ==
    {MkCloud(N, d, hasN, hasC, gens, defect) :
        N \in 0..MaxPoints, d \in SupportedDtypes, hasN \in BOOLEAN,
        hasC \in BOOLEAN, gens \in SUBSET GenericNames, defect \in Defects}

(* The iteration orders of the attribute table (a hash map): the names in  *)
(* one order or in the reverse order.                                      *)
Ascending(names) == SelectSeq(AllNames, LAMBDA n : n \in names)
Reverse(s) == [i \in 1..Len(s) |-> s[Len(s) + 1 - i]]
IterOrders(c) == {Ascending(DOMAIN c), Reverse(Ascending(DOMAIN c))}

(***************************************************************************)
(* Inputs of a read: a hand-made file.  A file is                          *)
(* [created, header, format, elems, count, props, body, closed]; elems are *)
(* the element names in file order, count and props those of the first     *)
(* "vertex" element (the other elements have no instances), body the value *)
(* tokens in file order.                                                   *)
(***************************************************************************)
Formats == {"PLY_ASCII", "PLY_LITTLE_ENDIAN"}

PropChoices ==
    {[name |-> "x", type |-> "PLY_FLOAT"],
     [name |-> "x", type |-> "PLY_CHAR"],
     [name |-> "y", type |-> "PLY_FLOAT"],
     [name |-> "y", type |-> "PLY_DOUBLE"],
     [name |-> "a", type |-> "PLY_UCHAR"],
     [name |-> "a", type |-> "PLY_UINT"]}

SeqsUpTo(S, n) == UNION {[1..k -> S] : k \in 0..n}

ElemChoices == {<<>>, <<"face">>, <<"vertex">>, <<"face", "vertex">>}

CraftedBody(format, count, props) ==
    [p \in 1..(count * Len(props)) |->
        EncodeValue(format, props[((p - 1) % Len(props)) + 1].type, p)]

CraftedFiles ==
    {[created |-> TRUE, header |-> TRUE, format |-> "PLY_ASCII",
      elems |-> es, count |-> IF "vertex" \in Range(es) THEN c ELSE 0,
      props |-> IF "vertex" \in Range(es) THEN ps ELSE <<>>,
      body |-> IF "vertex" \in Range(es)
               THEN CraftedBody("PLY_ASCII", c, ps) ELSE <<>>,
      closed |-> TRUE] :
        es \in ElemChoices, c \in 0..MaxCount, ps \in SeqsUpTo(PropChoices, MaxProps)}

NoFile ==
    [created |-> FALSE, header |-> FALSE, format |-> "PLY_ASCII",
     elems |-> <<>>, count |-> 0, props |-> <<>>, body |-> <<>>,
     closed |-> FALSE]

(***************************************************************************)
(* State.                                                                  *)
(***************************************************************************)
VARIABLES
    mode,                \* "roundtrip", "crafted" or "callback"
    cloud,               \* the attribute table handed to the writer
    order,               \* iteration order of the table (t_map)
    write_ascii,         \* params.write_ascii
    file,                \* the file on disk
    wpc,                 \* position of WritePointCloudToPLY
    wresult,             \* its return value
    attribute_ptrs,      \* vector<AttributePtr>
    wi, wg, wk,          \* point i, position in attribute_ptrs, scalar in group
    wlog,                \* calls received by the writer's progress reporter
    trace,               \* the scalar each ply_write call was given
    rpc,                 \* position of ReadPointCloudFromPLY
    rresult,             \* its return value
    opened, closes,      \* ply_open succeeded; number of ply_close calls
    element_size,
    size,                \* what ply_set_read_cb returned last (line 214)
    attribute,           \* index of the property the registration loop is at
    inits,               \* positions_init, normals_init, colors_init
    id_to_attr_state_,
    name_to_attr_state_,
    read_cb,             \* per property of the vertex element: its callback
    heap,                \* the tensors allocated by the read
    pointcloud,          \* attribute name -> index of its tensor in heap
    row, col,            \* instance and property ply_read is at
    rlog,                \* calls received by the reader's progress reporter
    cb_ret,              \* return value of the last ReadAttributeCallback
    overrun              \* a store left the buffer it was aimed at

wvars == <<wpc, wresult, attribute_ptrs, wi, wg, wk, wlog, trace>>
rvars == <<rpc, rresult, opened, closes, element_size, size, attribute, inits,
           id_to_attr_state_, name_to_attr_state_, read_cb, heap, pointcloud,
           row, col, rlog, cb_ret, overrun>>
ivars == <<mode, cloud, order, write_ascii>>
vars == <<ivars, file, wvars, rvars>>

NoCallback == [set |-> FALSE, T |-> "Undefined", id |-> 0]

ReaderInit ==
    /\ rpc = "idle"
    /\ rresult = FALSE
    /\ opened = FALSE
    /\ closes = 0
    /\ element_size = 0
    /\ size = 0
    /\ attribute = 0
    /\ inits = [positions |-> FALSE, normals |-> FALSE, colors |-> FALSE]
    /\ id_to_attr_state_ = <<>>
    /\ name_to_attr_state_ = EmptyMap
    /\ read_cb = <<>>
    /\ heap = <<>>
    /\ pointcloud = EmptyMap
    /\ row = 0
    /\ col = 0
    /\ rlog = <<>>
    /\ cb_ret = 1
    /\ overrun = FALSE

WriterInit(pc) ==
    /\ wpc = pc
    /\ wresult = FALSE
    /\ attribute_ptrs = <<>>
    /\ wi = 0
    /\ wg = 0
    /\ wk = 0
    /\ wlog = <<>>
    /\ trace = <<>>

InitRoundTrip ==
    /\ mode = "roundtrip"
    /\ cloud \in Clouds
    /\ order \in IterOrders(cloud)
    /\ write_ascii \in BOOLEAN
    /\ file = NoFile
    /\ WriterInit("start")
    /\ ReaderInit

InitCrafted ==
    /\ mode = "crafted"
    /\ cloud = EmptyMap
    /\ order = <<>>
    /\ write_ascii = TRUE
    /\ file \in CraftedFiles
    /\ WriterInit("idle")
    /\ ReaderInit

Init == InitRoundTrip \/ InitCrafted

(***************************************************************************)
(* WritePointCloudToPLY.                                                   *)
(***************************************************************************)
HasPointAttr(c, key) ==
    /\ key \in DOMAIN c
    /\ c[key].rows > 0
    /\ c[key].rows = c["positions"].rows

HasPointPositions(c) == "positions" \in DOMAIN c /\ c["positions"].rows > 0

IsEmpty(c) == ~HasPointPositions(c)

num_points == cloud["positions"].rows

AttrValidSkipsShape(c, name, n) ==
    IF name \in {"positions", "normals", "colors"}
    THEN c[name].rows = n
    ELSE c[name].rows = n

AttrValid(c, name, n) ==
    IF name \in {"positions", "normals", "colors"}
    THEN c[name].rows = n
    ELSE c[name].rows = n /\ c[name].cols = 1

(* Lines 360-391: the empty check and the cardinality loop.                *)
WriteValidate ==
    /\ wpc = "start"
    /\ IF IsEmpty(cloud)
          \/ \E k \in 1..Len(order) : ~AttrValid(cloud, order[k], num_points)
       THEN wpc' = "done" /\ wresult' = FALSE
       ELSE wpc' = "create" /\ wresult' = wresult
    /\ UNCHANGED <<ivars, file, attribute_ptrs, wi, wg, wk, wlog, trace, rvars>>

(* Lines 393-401: ply_create.                                              *)
WriteCreate ==
    /\ wpc = "create"
    /\ \E ok \in BOOLEAN :
          IF ok
          THEN /\ file' = [file EXCEPT !.created = TRUE,
                              !.format = IF write_ascii THEN "PLY_ASCII"
                                         ELSE "PLY_LITTLE_ENDIAN"]
               /\ wpc' = "header"
               /\ wresult' = wresult
          ELSE /\ file' = file
               /\ wpc' = "done"
               /\ wresult' = FALSE
    /\ UNCHANGED <<ivars, attribute_ptrs, wi, wg, wk, wlog, trace, rvars>>

Triple(a, b, c, type) ==
    <<[name |-> a, type |-> type], [name |-> b, type |-> type],
      [name |-> c, type |-> type]>>

AttributePtr(c, name, group_size) ==
    [dtype_ |-> c[name].dtype, data_ptr_ |-> name, group_size_ |-> group_size]

GenericOrder(ord) ==
    SelectSeq(ord, LAMBDA n : n # "positions" /\ n # "colors" /\ n # "normals")

(* Lines 410-452: the ply_add_property calls, in call order.               *)
HeaderProps(c, ord) ==
    Triple("x", "y", "z", GetPlyType(c["positions"].dtype))
    \o (IF HasPointAttr(c, "normals")
        THEN Triple("nx", "ny", "nz", GetPlyType(c["normals"].dtype))
        ELSE <<>>)
    \o (IF HasPointAttr(c, "colors")
        THEN Triple("red", "green", "blue", GetPlyType(c["colors"].dtype))
        ELSE <<>>)
    \o [k \in 1..Len(GenericOrder(ord)) |->
          [name |-> GenericOrder(ord)[k],
           type |-> GetPlyType(c[GenericOrder(ord)[k]].dtype)]]

(* Lines 406-452: the attribute_ptrs.emplace_back calls, in call order.    *)
HeaderPtrs(c, ord) ==
    <<AttributePtr(c, "positions", TripleWidth)>>
    \o (IF HasPointAttr(c, "normals")
        THEN <<AttributePtr(c, "normals", TripleWidth)>> ELSE <<>>)
    \o (IF HasPointAttr(c, "colors")
        THEN <<AttributePtr(c, "colors", TripleWidth)>> ELSE <<>>)
    \o [k \in 1..Len(GenericOrder(ord)) |->
          AttributePtr(c, GenericOrder(ord)[k], 1)]

(* Lines 403-461: element and property declarations, ply_write_header, and *)
(* on success the progress reporter.                                       *)
WriteHeader ==
    /\ wpc = "header"
    /\ attribute_ptrs' = HeaderPtrs(cloud, order)
    /\ \E ok \in BOOLEAN :
          IF ok
          THEN /\ file' = [file EXCEPT !.header = TRUE,
                              !.elems = <<"vertex">>,
                              !.count = num_points,
                              !.props = HeaderProps(cloud, order)]
               /\ wlog' = <<"SetTotal">>
               /\ wpc' = "stream"
               /\ wresult' = wresult
               /\ wg' = 1
          ELSE /\ file' = [file EXCEPT !.closed = TRUE]
               /\ wlog' = wlog
               /\ wpc' = "done"
               /\ wresult' = FALSE
               /\ wg' = wg
    /\ UNCHANGED <<ivars, wi, wk, trace, rvars>>

(* The scalar the loop of lines 468-471 reads on its k-th round for point  *)
(* i of a group.                                                           *)
ScalarIndexColumnMajor(group_size, i, k) == i + k

ScalarIndex(group_size, i, k) == group_size * i + k

(* ply_write: the library encodes the value for the next property of the   *)
(* declared list, or refuses a value outside the property type's range.    *)
PlyWrite(f, v) ==
    LET pidx == (Len(f.body) % Len(f.props)) + 1
        type == f.props[pidx].type
    IN  IF WireInRange(type, v)
        THEN [f EXCEPT !.body = Append(@, EncodeValue(f.format, type, v))]
        ELSE f

(* Lines 463-478, one ply_write call; the Update of line 476 belongs to    *)
(* the call that ends a point.                                             *)
WriteValue ==
    /\ wpc = "stream"
    /\ wi < num_points
    /\ LET it == attribute_ptrs[wg]
           idx == ScalarIndex(it.group_size_, wi, wk)
           lastOfGroup == wk + 1 >= it.group_size_
           lastOfPoint == lastOfGroup /\ wg >= Len(attribute_ptrs)
       IN  /\ file' = PlyWrite(file, cloud[it.data_ptr_].data[idx + 1])
           /\ trace' = Append(trace, [ptr |-> it.data_ptr_, idx |-> idx,
                                      point |-> wi])
           /\ wk' = IF lastOfGroup THEN 0 ELSE wk + 1
           /\ wg' = IF lastOfPoint THEN 1
                    ELSE IF lastOfGroup THEN wg + 1 ELSE wg
           /\ wi' = IF lastOfPoint THEN wi + 1 ELSE wi
           /\ wlog' = IF lastOfPoint /\ wi % ProgressInterval = 0
                      THEN Append(wlog, "Update") ELSE wlog
    /\ UNCHANGED <<ivars, wpc, wresult, attribute_ptrs, rvars>>

(* Lines 480-483.                                                          *)
WriteFinish ==
    /\ wpc = "stream"
    /\ wi >= num_points
    /\ wlog' = Append(wlog, "Finish")
    /\ file' = [file EXCEPT !.closed = TRUE]
    /\ wresult' = TRUE
    /\ wpc' = "done"
    /\ UNCHANGED <<ivars, attribute_ptrs, wi, wg, wk, trace, rvars>>

WriteNext == WriteValidate \/ WriteCreate \/ WriteHeader \/ WriteValue \/ WriteFinish

(***************************************************************************)
(* ReadAttributeCallback<T>.                                               *)
(***************************************************************************)
NewBuffer(dtype, rows, cols) ==
    [dtype |-> dtype, rows |-> rows, cols |-> cols,
     data |-> [i \in 1..(rows * cols) |-> 0],
     cell |-> [i \in 1..(rows * cols) |-> "uninit"],
     live |-> TRUE]

(* data_ptr[index] = value through a T*: the bytes                         *)
(* [sizeof(T)*index, sizeof(T)*(index+1)) counted from the buffer's start. *)
(* A store through the buffer's own type inside the buffer sets one cell;  *)
(* any other store leaves unspecified bits in the cells it overlaps, and   *)
(* is a fault when it passes the end of the buffer or the buffer is freed. *)
Store(hp, b, T, index, v) ==
    LET buf == hp[b]
        n == buf.rows * buf.cols
        sz == SizeOf(buf.dtype)
        lo == SizeOf(T) * index
        hi == lo + SizeOf(T)
        fault == ~buf.live \/ hi > n * sz
        hit == {c \in 0..(n - 1) : c * sz < hi /\ (c + 1) * sz > lo}
    IN  IF T = buf.dtype /\ ~fault
        THEN [heap |-> [hp EXCEPT ![b].data[index + 1] = v,
                                  ![b].cell[index + 1] = "set"],
              fault |-> FALSE]
        ELSE [heap |-> [hp EXCEPT ![b].cell =
                           [i \in 1..n |-> IF (i - 1) \in hit
                                           THEN "unspecified" ELSE @[i]]],
              fault |-> fault]

(* Lines 75-76.                                                            *)
FlatIndex(st) == st.stride_ * st.current_size_ + st.offset_

AtBoundOffByOne(st) == st.current_size_ > st.size_

(* Line 70.                                                                *)
AtBound(st) == st.current_size_ >= st.size_

NextSizeAddsStride(st) == st.current_size_ + st.stride_

(* Line 79.                                                                *)
NextSize(st) == st.current_size_ + 1

(* Lines 62-85: the return value, the descriptors and buffers afterwards,  *)
(* whether line 82 reports progress, and whether the store faulted.        *)
ReadAttributeCallback(T, states, hp, id, v) ==
    LET st == states[id + 1]
    IN  IF AtBound(st)
        THEN [ret |-> 0, states |-> states, heap |-> hp,
              update |-> FALSE, fault |-> FALSE]
        ELSE LET stored == Store(hp, st.data_ptr_, T, FlatIndex(st), CastTo(T, v))
                 cur == NextSize(st)
             IN  [ret |-> 1,
                  states |-> [states EXCEPT ![id + 1].current_size_ = cur],
                  heap |-> stored.heap,
                  update |-> st.stride_ = 0 /\ cur % ProgressInterval = 0,
                  fault |-> stored.fault]

(***************************************************************************)
(* ReadPointCloudFromPLY.                                                  *)
(***************************************************************************)
CanRead ==
    \/ mode = "crafted"
    \/ mode = "roundtrip" /\ wpc = "done" /\ wresult

(* Lines 160-165: ply_open.                                                *)
ReadOpen ==
    /\ rpc = "idle"
    /\ CanRead
    /\ \E ok \in BOOLEAN :
          IF ok
          THEN opened' = TRUE /\ rpc' = "header" /\ rresult' = rresult
          ELSE opened' = opened /\ rpc' = "done" /\ rresult' = FALSE
    /\ UNCHANGED <<ivars, file, wvars, closes, element_size, size, attribute,
                   inits,
                   id_to_attr_state_, name_to_attr_state_, read_cb, heap,
                   pointcloud, row, col, rlog, cb_ret, overrun>>

(* Lines 166-170: ply_read_header.                                         *)
ReadHeader ==
    /\ rpc = "header"
    /\ \E ok \in BOOLEAN :
          IF ok /\ file.header
          THEN closes' = closes /\ rpc' = "locate" /\ rresult' = rresult
          ELSE closes' = closes + 1 /\ rpc' = "done" /\ rresult' = FALSE
    /\ UNCHANGED <<ivars, file, wvars, opened, element_size, size, attribute,
                   inits,
                   id_to_attr_state_, name_to_attr_state_, read_cb, heap,
                   pointcloud, row, col, rlog, cb_ret, overrun>>

(* Lines 188-191: the ply_close calls on the way out when no element is    *)
(* named "vertex".                                                         *)
MissingVertexCloses == 0

(* Lines 172-197: the search for the first element named "vertex".         *)
ReadLocate ==
    /\ rpc = "locate"
    /\ IF "vertex" \in Range(file.elems)
       THEN /\ element_size' = file.count
            /\ attribute' = 1
            /\ read_cb' = [k \in 1..Len(file.props) |-> NoCallback]
            /\ rpc' = "register"
            /\ UNCHANGED <<rresult, closes>>
       ELSE /\ rpc' = "done"
            /\ rresult' = FALSE
            /\ closes' = closes + MissingVertexCloses
            /\ UNCHANGED <<element_size, attribute, read_cb>>
    /\ UNCHANGED <<ivars, file, wvars, opened, size, inits, id_to_attr_state_,
                   name_to_attr_state_, heap, pointcloud, row, col, rlog,
                   cb_ret, overrun>>

Bucket(name) ==
    IF name = "x" \/ name = "y" \/ name = "z" THEN "positions"
    ELSE IF name = "nx" \/ name = "ny" \/ name = "nz" THEN "normals"
    ELSE IF name = "red" \/ name = "green" \/ name = "blue" THEN "colors"
    ELSE name

IsTriple(name) == Bucket(name) # name

Stride(name) == IF IsTriple(name) THEN TripleWidth ELSE 1

Offset(name) ==
    IF ~IsTriple(name) THEN 0
    ELSE IF name \in {"x", "nx", "red"} THEN 0
    ELSE IF name \in {"y", "ny", "green"} THEN 1
    ELSE 2

(* ply_find_property: the first property of the element with the name.     *)
FindProperty(props, name) ==
    CHOOSE k \in 1..Len(props) :
        /\ props[k].name = name
        /\ \A j \in 1..(k - 1) : props[j].name # name

(* The instance counts ply_set_read_cb may report for the element.         *)
ReportedCounts(n) == (0..MaxCount) \cup {n}

Put(f, k, v) == [n \in (DOMAIN f) \cup {k} |-> IF n = k THEN v ELSE f[n]]

CountMismatchOnlyShort(reported, n) == reported < n

(* Line 218.                                                               *)
CountMismatch(reported, n) == reported # n

(* Lines 233-244, 253-264, 274-285, 287-289 and 298-299: the descriptor of *)
(* a property.                                                             *)
AttrState(name, ptr, n) ==
    [name_ |-> Bucket(name), data_ptr_ |-> ptr, stride_ |-> Stride(name),
     offset_ |-> Offset(name), size_ |-> n, current_size_ |-> 0]

(* Lines 199-305, one round of the loop over the vertex properties.  The  *)
(* callback is attached by name before the count is compared; LogError    *)
(* throws, which leaves the function at once (rpc "threw").                *)
ReadRegister ==
    /\ rpc = "register"
    /\ attribute <= Len(file.props)
    /\ LET name == file.props[attribute].name
           type == file.props[attribute].type
           dt == GetDtype(type)
           id == Len(id_to_attr_state_)
           bucket == Bucket(name)
           alloc == ~IsTriple(name) \/ ~inits[bucket]
       IN  IF dt = "Undefined"
           THEN /\ attribute' = attribute + 1
                /\ UNCHANGED <<rpc, size, read_cb, heap, pointcloud, inits,
                               id_to_attr_state_, name_to_attr_state_>>
           ELSE \E reported \in ReportedCounts(element_size) :
                /\ size' = reported
                /\ read_cb' = [read_cb EXCEPT ![FindProperty(file.props, name)] =
                                  [set |-> TRUE, T |-> dt, id |-> id]]
                /\ IF CountMismatch(reported, element_size)
                   THEN /\ rpc' = "threw"
                        /\ UNCHANGED <<attribute, heap, pointcloud, inits,
                                       id_to_attr_state_, name_to_attr_state_>>
                   ELSE /\ heap' =
                             IF alloc
                             THEN Append(
                                    IF bucket \in DOMAIN pointcloud
                                    THEN [heap EXCEPT ![pointcloud[bucket]].live = FALSE]
                                    ELSE heap,
                                    NewBuffer(dt,
                                              IF IsTriple(name) THEN element_size
                                              ELSE reported,
                                              Stride(name)))
                             ELSE heap
                        /\ pointcloud' = IF alloc
                                         THEN Put(pointcloud, bucket, Len(heap) + 1)
                                         ELSE pointcloud
                        /\ inits' = IF IsTriple(name)
                                    THEN [inits EXCEPT ![bucket] = TRUE]
                                    ELSE inits
                        /\ id_to_attr_state_' =
                             Append(id_to_attr_state_,
                                    AttrState(name, pointcloud'[bucket],
                                              element_size))
                        /\ name_to_attr_state_' =
                             IF name \in DOMAIN name_to_attr_state_
                             THEN name_to_attr_state_
                             ELSE Put(name_to_attr_state_, name, id)
                        /\ attribute' = attribute + 1
                        /\ rpc' = rpc
    /\ UNCHANGED <<ivars, file, wvars, rresult, opened, closes, element_size,
                   row, col, rlog, cb_ret, overrun>>

(* Lines 307-311: the reporter, then the call of ply_read.                 *)
ReadBegin ==
    /\ rpc = "register"
    /\ attribute > Len(file.props)
    /\ rlog' = <<"SetTotal">>
    /\ rpc' = "read"
    /\ row' = 0
    /\ col' = 1
    /\ UNCHANGED <<ivars, file, wvars, rresult, opened, closes, element_size,
                   size, attribute, inits, id_to_attr_state_,
                   name_to_attr_state_, read_cb, heap, pointcloud, cb_ret,
                   overrun>>

StreamEnded == row >= file.count \/ Len(file.props) = 0

(* Line 314.                                                               *)
ReadFailCloses == 1

ReadFailFinishes == <<"Finish">>

(* Lines 312-315: what the reporter receives when ply_read fails.          *)
ReadFailReports == <<>>

(* Lines 311-316, ply_read returned 0.                                     *)
ReadFailed ==
    /\ rpc' = "done"
    /\ rresult' = FALSE
    /\ closes' = closes + ReadFailCloses
    /\ rlog' = rlog \o ReadFailReports

(* ply_read, one scalar of the vertex element: the library decodes the     *)
(* next token and calls the property's callback, if it has one; a token    *)
(* it cannot read, or a callback returning 0, ends ply_read with 0.        *)
ReadValue ==
    /\ rpc = "read"
    /\ ~StreamEnded
    /\ LET p == row * Len(file.props) + col
           type == file.props[col].type
           cb == read_cb[col]
           next == /\ col' = IF col >= Len(file.props) THEN 1 ELSE col + 1
                   /\ row' = IF col >= Len(file.props) THEN row + 1 ELSE row
       IN  \E ok \in BOOLEAN :
           IF ~ok \/ p > Len(file.body)
           THEN /\ ReadFailed
                /\ UNCHANGED <<row, col, id_to_attr_state_, heap, cb_ret, overrun>>
           ELSE IF ~cb.set
           THEN /\ next
                /\ UNCHANGED <<rpc, rresult, closes, rlog, id_to_attr_state_,
                               heap, cb_ret, overrun>>
           ELSE LET r == ReadAttributeCallback(
                             cb.T, id_to_attr_state_, heap, cb.id,
                             DecodeValue(file.format, type, file.body[p]))
                IN  IF r.ret = 0
                    THEN /\ ReadFailed
                         /\ cb_ret' = 0
                         /\ UNCHANGED <<row, col, id_to_attr_state_, heap, overrun>>
                    ELSE \E crash \in (IF r.fault THEN BOOLEAN ELSE {FALSE}) :
                         IF crash
                         THEN /\ rpc' = "crashed"
                              /\ overrun' = TRUE
                              /\ UNCHANGED <<row, col, rresult, closes, rlog,
                                             id_to_attr_state_, heap, cb_ret>>
                         ELSE /\ next
                              /\ id_to_attr_state_' = r.states
                              /\ heap' = r.heap
                              /\ cb_ret' = r.ret
                              /\ overrun' = (overrun \/ r.fault)
                              /\ rlog' = IF r.update THEN Append(rlog, "Update")
                                         ELSE rlog
                              /\ UNCHANGED <<rpc, rresult, closes>>
    /\ UNCHANGED <<ivars, file, wvars, opened, element_size, size, attribute,
                   inits,
                   name_to_attr_state_, read_cb, pointcloud>>

(* Lines 318-321, ply_read returned 1.                                     *)
ReadFinish ==
    /\ rpc = "read"
    /\ StreamEnded
    /\ closes' = closes + 1
    /\ rlog' = Append(rlog, "Finish")
    /\ rresult' = TRUE
    /\ rpc' = "done"
    /\ UNCHANGED <<ivars, file, wvars, opened, element_size, size, attribute,
                   inits,
                   id_to_attr_state_, name_to_attr_state_, read_cb, heap,
                   pointcloud, row, col, cb_ret, overrun>>

ReadNext ==
    ReadOpen \/ ReadHeader \/ ReadLocate \/ ReadRegister \/ ReadBegin
    \/ ReadValue \/ ReadFinish

Next == WriteNext \/ ReadNext

Spec == Init /\ [][Next]_vars

(***************************************************************************)
(* ReadAttributeCallback on its own: one descriptor, built as the          *)
(* registration loop builds it, and a library that may call the callback   *)
(* any number of times with any value.  row counts the calls.              *)
(***************************************************************************)
CallbackProps ==
    {[name |-> n, type |-> t] :
        n \in {"x", "y", "z", "a"}, t \in {"PLY_FLOAT", "PLY_UCHAR"}}

CallbackValues == {1, 2}

InitCallback ==
    /\ mode = "callback"
    /\ cloud = EmptyMap
    /\ order = <<>>
    /\ write_ascii = TRUE
    /\ file = NoFile
    /\ WriterInit("idle")
    /\ rpc = "callback"
    /\ rresult = FALSE
    /\ opened = TRUE
    /\ closes = 0
    /\ \E prop \in CallbackProps, n \in 0..MaxCount :
          /\ element_size = n
          /\ size = n
          /\ id_to_attr_state_ = <<AttrState(prop.name, 1, n)>>
          /\ heap = <<NewBuffer(GetDtype(prop.type), n, Stride(prop.name))>>
          /\ pointcloud = Put(EmptyMap, Bucket(prop.name), 1)
          /\ name_to_attr_state_ = Put(EmptyMap, prop.name, 0)
          /\ read_cb = <<[set |-> TRUE, T |-> GetDtype(prop.type), id |-> 0]>>
          /\ inits = [b \in {"positions", "normals", "colors"} |->
                         b = Bucket(prop.name)]
    /\ attribute = 2
    /\ row = 0
    /\ col = 1
    /\ rlog = <<"SetTotal">>
    /\ cb_ret = 1
    /\ overrun = FALSE

CallbackInvoke ==
    /\ rpc = "callback"
    /\ row < MaxCount + 2
    /\ \E v \in CallbackValues :
          LET r == ReadAttributeCallback(read_cb[1].T, id_to_attr_state_, heap,
                                         read_cb[1].id, v)
          IN  /\ cb_ret' = r.ret
              /\ id_to_attr_state_' = r.states
              /\ heap' = r.heap
              /\ overrun' = (overrun \/ r.fault)
              /\ rlog' = IF r.update THEN Append(rlog, "Update") ELSE rlog
    /\ row' = row + 1
    /\ UNCHANGED <<ivars, file, wvars, rpc, rresult, opened, closes,
                   element_size, size, attribute, inits, name_to_attr_state_,
                   read_cb, pointcloud, col>>

NextCallback == CallbackInvoke

SpecCallback == InitCallback /\ [][NextCallback]_vars

(***************************************************************************)
(* Properties.                                                             *)
(***************************************************************************)
Returned == rpc = "done"
Succeeded == rpc = "done" /\ rresult
Registering == rpc \in {"register", "read", "done", "threw", "crashed"}
Supported(k) == GetDtype(file.props[k].type) # "Undefined"
Descriptors == 1..Len(id_to_attr_state_)
Count(log, e) == Cardinality({i \in 1..Len(log) : log[i] = e})

Filled(b) == \A i \in 1..(heap[b].rows * heap[b].cols) : heap[b].cell[i] = "set"
AsTensor(b) ==
    [dtype |-> heap[b].dtype, rows |-> heap[b].rows, cols |-> heap[b].cols,
     data |-> heap[b].data]

SameTable ==
    /\ DOMAIN pointcloud = DOMAIN cloud
    /\ \A n \in DOMAIN pointcloud :
          Filled(pointcloud[n]) /\ AsTensor(pointcloud[n]) = cloud[n]

(* C1: reading back a written table gives the same names, dtypes, shapes   *)
(* and values, in ASCII and in binary.                                     *)
C1_RoundTrip == (mode = "roundtrip" /\ Succeeded) => SameTable

(* The round trip of the tables none of whose generic attributes bears a   *)
(* property name the reader reserves for positions, normals or colors.     *)
RoundTripOfUnreservedNames ==
    (mode = "roundtrip" /\ Succeeded /\ DOMAIN cloud \cap ReservedNames = {})
        => SameTable

(* C2: every registered descriptor expects the declared vertex count, and  *)
(* a property count that differs from it aborts the read at that property: *)
(* no descriptor for it, none for a later property, nothing streamed.      *)
C2_Registration ==
    /\ \A i \in Descriptors : id_to_attr_state_[i].size_ = file.count
    /\ (Registering /\ size # element_size
            /\ \E k \in 1..Len(read_cb) : read_cb[k].set)
          => rpc = "threw"
    /\ rpc = "threw" =>
          /\ Supported(attribute)
          /\ size # file.count
          /\ Len(id_to_attr_state_) =
                Cardinality({k \in 1..(attribute - 1) : Supported(k)})
          /\ \A i \in Descriptors : id_to_attr_state_[i].current_size_ = 0
          /\ rlog = <<>>
          /\ row = 0
          /\ ~rresult

C2_Witness ==
    /\ rpc = "threw"
    /\ Len(id_to_attr_state_) >= 1
    /\ attribute < Len(file.props)
    /\ Supported(attribute + 1)

Owning(i) == \E k \in 1..Len(read_cb) : read_cb[k].set /\ read_cb[k].id = i - 1

C4_UnsupportedSkipped ==
    (\E u \in 1..Len(file.props) : ~Supported(u)) =>
    /\ Registering =>
          /\ \A k \in 1..Len(read_cb) : ~Supported(k) => ~read_cb[k].set
          /\ Len(id_to_attr_state_) <=
                Cardinality({k \in 1..Len(file.props) : Supported(k)})
    /\ Succeeded =>
          /\ \A k \in 1..Len(file.props) :
                (/\ ~Supported(k)
                 /\ \A j \in 1..Len(file.props) :
                       Supported(j) =>
                           Bucket(file.props[j].name) # Bucket(file.props[k].name))
                    => Bucket(file.props[k].name) \notin DOMAIN pointcloud
          /\ \A k \in 1..Len(file.props) :
                Supported(k) =>
                    LET name == file.props[k].name
                        b == pointcloud[Bucket(name)]
                    IN  \A r \in 0..(file.count - 1) :
                            heap[b].cell[Stride(name) * r + Offset(name) + 1] = "set"

(* C5: a cloud that fails validation never gets a file: nothing is         *)
(* created, declared or written, and the write returns failure.            *)
InvalidCloud ==
    /\ mode = "roundtrip"
    /\ \/ "positions" \notin DOMAIN cloud
       \/ cloud["positions"].rows = 0
       \/ \E n \in DOMAIN cloud :
             IF n \in {"positions", "normals", "colors"}
             THEN cloud[n].rows # cloud["positions"].rows
             ELSE <<cloud[n].rows, cloud[n].cols>> # <<cloud["positions"].rows, 1>>

C5_NoFileOnInvalid ==
    InvalidCloud =>
        /\ file = NoFile
        /\ trace = <<>>
        /\ wlog = <<>>
        /\ wpc \in {"start", "done"}
        /\ ~wresult

C5_Witness ==
    /\ InvalidCloud
    /\ wpc = "done"
    /\ "positions" \in DOMAIN cloud
    /\ cloud["positions"].rows > 0
    /\ \A n \in DOMAIN cloud : cloud[n].rows = cloud["positions"].rows
    /\ \E n \in DOMAIN cloud : cloud[n].cols = 2

(* The declarations the claim prescribes: name, tensor, width of the group *)
(* and place in the group.                                                 *)
Group(owner, a, b, c) ==
    <<[name |-> a, owner |-> owner, width |-> 3, k |-> 0],
      [name |-> b, owner |-> owner, width |-> 3, k |-> 1],
      [name |-> c, owner |-> owner, width |-> 3, k |-> 2]>>

Declared(c, ord) ==
    LET gens == SelectSeq(ord, LAMBDA n : n \notin {"positions", "normals", "colors"})
    IN  Group("positions", "x", "y", "z")
        \o (IF "normals" \in DOMAIN c THEN Group("normals", "nx", "ny", "nz") ELSE <<>>)
        \o (IF "colors" \in DOMAIN c THEN Group("colors", "red", "green", "blue") ELSE <<>>)
        \o [j \in 1..Len(gens) |-> [name |-> gens[j], owner |-> gens[j],
                                    width |-> 1, k |-> 0]]

(* C6: the header declares x,y,z, then nx,ny,nz, then red,green,blue, then *)
(* the generic attributes in iteration order; the n-th value written for   *)
(* point i is buffer[width*i + k] of the n-th declared property, and a     *)
(* finished write has emitted point_count times the number of properties.  *)
C6_DeclaredOrder ==
    (mode = "roundtrip" /\ file.header) =>
        LET D == Declared(cloud, order)
            P == Len(D)
        IN  /\ Len(file.props) = P
            /\ \A n \in 1..P :
                  /\ file.props[n].name = D[n].name
                  /\ file.props[n].type = GetPlyType(cloud[D[n].owner].dtype)
            /\ Len(file.body) = Len(trace)
            /\ \A p \in 1..Len(trace) :
                  LET i == (p - 1) \div P
                      n == ((p - 1) % P) + 1
                      idx == D[n].width * i + D[n].k
                  IN  /\ trace[p] = [ptr |-> D[n].owner, idx |-> idx, point |-> i]
                      /\ file.body[p] =
                            EncodeValue(file.format, file.props[n].type,
                                        cloud[D[n].owner].data[idx + 1])
            /\ (wpc = "done" /\ wresult) =>
                  Len(trace) = cloud["positions"].rows * P

C6_Witness ==
    /\ mode = "roundtrip"
    /\ wpc = "done"
    /\ wresult
    /\ cloud["positions"].rows >= 2
    /\ {"normals", "colors", "intensity", "label"} \subseteq DOMAIN cloud
    /\ Len(trace) = 2 * 11

WellFormed(log) ==
    /\ Count(log, "Finish") <= 1
    /\ \A i \in 1..Len(log) : log[i] = "Finish" => i = Len(log)

ReadPassOver == Returned /\ rlog # <<>>
WritePassOver == mode = "roundtrip" /\ wpc = "done" /\ file.created

(* C7 as stated: every pass that was attempted, successful or not, ends    *)
(* with exactly one Finish, after the last Update.                         *)
C7_Original ==
    /\ WellFormed(rlog) /\ WellFormed(wlog)
    /\ ReadPassOver => Count(rlog, "Finish") = 1
    /\ WritePassOver => Count(wlog, "Finish") = 1

(* C7 amended: Finish is called exactly once, after the last Update, by a  *)
(* pass that succeeds, and not at all by a pass that fails or is still     *)
(* running.                                                                *)
C7_Amended ==
    /\ WellFormed(rlog) /\ WellFormed(wlog)
    /\ Count(rlog, "Finish") = IF Succeeded THEN 1 ELSE 0
    /\ Count(wlog, "Finish") = IF wpc = "done" /\ wresult THEN 1 ELSE 0

C7_Witness ==
    /\ ReadPassOver
    /\ ~rresult
    /\ row >= 1
    /\ Count(rlog, "Finish") = 0
    /\ Count(wlog, "Finish") = 1

CountWithinBounds ==
    \A i \in Descriptors :
        /\ id_to_attr_state_[i].current_size_ >= 0
        /\ id_to_attr_state_[i].current_size_ <= id_to_attr_state_[i].size_

Monotone ==
    \A i \in Descriptors :
        id_to_attr_state_'[i].current_size_ >= id_to_attr_state_[i].current_size_

Called == row' = row + 1
Exhausted ==
    id_to_attr_state_[1].current_size_ >= id_to_attr_state_[1].size_

(* C8 as stated: consumed_count stays within 0..expected_count and never   *)
(* decreases, and a call at the bound changes nothing and returns success. *)
C8_Original ==
    /\ [](CountWithinBounds)
    /\ [][/\ Monotone
          /\ (Called /\ Exhausted) =>
                /\ id_to_attr_state_' = id_to_attr_state_
                /\ heap' = heap
                /\ rlog' = rlog
                /\ cb_ret' = 1]_vars

(* C8 amended: consumed_count stays within 0..expected_count and never     *)
(* decreases; a call at the bound changes no buffer and no counter and     *)
(* returns 0, a call below the bound consumes one row and returns 1.       *)
C8_Amended ==
    /\ [](CountWithinBounds)
    /\ [][/\ Monotone
          /\ (Called /\ Exhausted) =>
                /\ id_to_attr_state_' = id_to_attr_state_
                /\ heap' = heap
                /\ rlog' = rlog
                /\ cb_ret' = 0
          /\ (Called /\ ~Exhausted) =>
                /\ id_to_attr_state_'[1].current_size_ =
                      id_to_attr_state_[1].current_size_ + 1
                /\ cb_ret' = 1]_vars

C8_Witness ==
    /\ mode = "callback"
    /\ id_to_attr_state_[1].size_ >= 1
    /\ id_to_attr_state_[1].current_size_ = id_to_attr_state_[1].size_
    /\ row > id_to_attr_state_[1].size_
    /\ cb_ret = 0

(* C9: every callback stores through the scalar type of the buffer its     *)
(* descriptor points to, and no store leaves that buffer.                  *)
C9_TypedStores ==
    /\ \A k \in 1..Len(read_cb) :
          (read_cb[k].set /\ read_cb[k].id < Len(id_to_attr_state_)) =>
              read_cb[k].T =
                  heap[id_to_attr_state_[read_cb[k].id + 1].data_ptr_].dtype
    /\ ~overrun

(* C10: every way out of the read after a successful ply_open has closed   *)
(* the handle exactly once.                                                *)
C10_ClosedOnce ==
    /\ closes <= 1
    /\ (opened /\ rpc \in {"done", "threw"}) => closes = 1

=============================================================================
